---- MODULE Spec2Model ----
(***************************************************************************)
(* The WNBA LED scoreboard: the ESPN client (api/wnba_api.py), the display *)
(* data model (api/data_models.py), the favourite-team configuration       *)
(* (core/config.py), the state manager (core/state_manager.py) and the    *)
(* main loop (main.py).                                                    *)
(*                                                                         *)
(* Times are whole seconds.  An optional value (Python None or a value) is *)
(* the empty set or a singleton.  A call that can raise returns a record   *)
(* whose field exc is "" or the name of the exception.                     *)
(***************************************************************************)
EXTENDS Integers, Sequences, FiniteSets, TLC

VARIABLES
    now,                    \* the wall clock, in seconds
    api_today,              \* what the upstream answered for today in the last cycle
    api_tomorrow,           \* what the upstream answered for tomorrow in the last cycle
    context,                \* the DisplayContext the last cycle returned (optional)
    current_game,           \* WNBAStateManager.current_game (optional)
    current_display_state,  \* WNBAStateManager.current_display_state
    last_update,            \* WNBAStateManager.last_update
    error_count,            \* WNBAStateManager.error_count
    prio_games,             \* argument of a direct call of _prioritize_games
    prio_result,            \* its result (optional)
    ctor_args,              \* arguments of a direct DisplayContext(...) construction
    ctor_result,            \* its result (optional)
    next_refresh,           \* WNBAStateManager.next_refresh
    running,                \* main.running, the process-wide shutdown flag
    pc,                     \* where main stands in its loop
    _last_context,          \* state_manager._last_context (optional)
    game_history,           \* WNBAStateManager.game_history, by game id
    frame_count,            \* main's frame_count
    needs_redraw,           \* main's needs_redraw
    last_content_hash,      \* main's last_content_hash (optional)
    rendered,               \* whether the last tick called a render
    refreshed               \* whether the last tick ran a cycle

loop_vars == <<next_refresh, running, pc, _last_context>>

\* game_history is written by the cycle and read by nothing but the status
\* summary, and the redraw bookkeeping is read by the rendering alone: the
\* specifications that observe neither leave them as they are.
track_vars == <<game_history, frame_count, needs_redraw, last_content_hash,
                rendered, refreshed>>

vars == <<now, api_today, api_tomorrow, context, current_game,
          current_display_state, last_update, error_count,
          prio_games, prio_result, ctor_args, ctor_result,
          next_refresh, running, pc, _last_context,
          game_history, frame_count, needs_redraw, last_content_hash,
          rendered, refreshed>>

-----------------------------------------------------------------------------
(* Bounds of the exploration *)

MaxToday == 2       \* events in the scoreboard answer for today
MaxTomorrow == 1    \* events in the scoreboard answer for tomorrow
MaxErrors == 6      \* consecutive failing cycles explored
MaxNow == 1         \* seconds the clock advances
MaxPrio == 3        \* games in a direct call of _prioritize_games
MaxClock == 930     \* seconds the clock of the main loop advances
MaxChanges == 2     \* score changes recorded for one game
MaxFrames == 32     \* frames the rendering loop counts
MaxSeconds == 16    \* seconds the clock of the rendering loop advances

-----------------------------------------------------------------------------
(* Configuration: core/config.py *)

favorite_teams == <<"SEA", "NY">>
pregame_hours == 2
update_interval == 15
NotFavorite == 999

SecondsPerHour == 3600
BaseScore == 100
FavoriteBonus == 50
LiveBonus == 20
WindowBonus == 10
FuturePenalty == 10
FinalPenalty == 30
RetryStep == 60
RetryCap == 300
FinalHourMinutes == 60
FinalHourCadence == 30
PregameCadence == 300
DefaultRetry == 60
IdleCadence == 900
FramesPerStep == 30
ExceptionSleep == 5

Min(a, b) == IF a <= b THEN a ELSE b

Contains(list, x) == \E i \in DOMAIN list : list[i] = x

\* list.index(x), zero-based, or 999 when x is not in the list
get_favorite_team_priority(abbreviation) ==
    IF Contains(favorite_teams, abbreviation)
    THEN (CHOOSE i \in DOMAIN favorite_teams :
             /\ favorite_teams[i] = abbreviation
             /\ \A j \in DOMAIN favorite_teams :
                   favorite_teams[j] = abbreviation => i <= j) - 1
    ELSE NotFavorite

-----------------------------------------------------------------------------
(* The ESPN client: api/wnba_api.py *)

\* int(text) on the score strings the feed carries; int() raises on any other text
ScoreValue == ("0" :> 0) @@ ("65" :> 65) @@ ("70" :> 70) @@ ("81" :> 81)

IntRaises(text) == text \notin DOMAIN ScoreValue
IntOf(text) == ScoreValue[text]

GameTeam(abbreviation, score) ==
    [abbreviation |-> abbreviation, score |-> score]

_parse_team_data(abbreviation, score_text) ==
    GameTeam(abbreviation, IntOf(score_text))

\* datetime.fromisoformat(date_str.replace('Z', '+00:00')), and the fallback
\* to the naive datetime.now() when the string does not parse
ParseDate(date, clock) ==
    IF date.kind = "iso_offset" THEN [aware |-> TRUE, t |-> date.t]
    ELSE IF date.kind = "iso_naive" THEN [aware |-> FALSE, t |-> date.t]
    ELSE [aware |-> FALSE, t |-> clock]

\* An event whose competitions list is missing or empty leaves home_team
\* unbound (UnboundLocalError); a score that is not a number makes int() raise.
ParseRaises(event) ==
    \/ event.comps = "none"
    \/ /\ event.comps = "ok"
       /\ IntRaises(event.away_score) \/ IntRaises(event.home_score)

_parse_game_data(event, clock) ==
    LET teams == event.comps = "ok"
    IN  [id |-> event.id,
         date |-> ParseDate(event.date, clock),
         status |-> [state |-> IF event.state = {} THEN "unknown"
                               ELSE CHOOSE s \in event.state : TRUE,
                     short_detail |-> event.shortDetail,
                     completed |-> event.completed],
         clock |-> [display_clock |-> event.displayClock,
                    period |-> event.period],
         home_team |-> IF teams
                       THEN _parse_team_data(event.home, event.home_score)
                       ELSE GameTeam("UNK", 0),
         away_team |-> IF teams
                       THEN _parse_team_data(event.away, event.away_score)
                       ELSE GameTeam("UNK", 0)]

is_pregame(game) == game.status.state = "pre"
is_live(game) == game.status.state = "in"
is_final_completed_only(game) == game.status.completed

is_final(game) == game.status.completed \/ game.status.state = "post"

\* _make_request: None on a request exception or a body that is not JSON,
\* the decoded body otherwise
_make_request(answer) ==
    IF answer.kind = "failed" THEN {} ELSE {answer}

RECURSIVE ParseEvents(_, _)
ParseEvents(events, clock) ==
    IF events = <<>> THEN <<>>
    ELSE IF ParseRaises(Head(events)) THEN ParseEvents(Tail(events), clock)
    ELSE <<_parse_game_data(Head(events), clock)>>
             \o ParseEvents(Tail(events), clock)

\* get_scoreboard: [] when the request gave nothing; data.get raises
\* AttributeError on a JSON body that is not an object
get_scoreboard(answer, clock) ==
    LET data == _make_request(answer)
    IN  IF data = {} THEN [exc |-> "", games |-> <<>>]
        ELSE IF answer.kind = "not_object"
        THEN [exc |-> "AttributeError", games |-> <<>>]
        ELSE [exc |-> "", games |-> ParseEvents(answer.events, clock)]

-----------------------------------------------------------------------------
(* The display data model: api/data_models.py *)

DisplayStates == {"idle", "pregame", "live", "final", "error"}

IdleData(message, current_time) ==
    [message |-> message, show_clock |-> TRUE, current_time |-> current_time]

ErrorData(error_message, error_code, retry_in) ==
    [error_message |-> error_message, error_code |-> error_code,
     retry_in |-> retry_in]

\* CountdownData.total_minutes_until: int(total_seconds // 60)
total_minutes_until(countdown) == countdown.time_until \div 60

\* The dataclass constructor followed by __post_init__
DisplayContext(state, scoreboard, countdown, idle, error, clock) ==
    LET fields == [state |-> state, scoreboard |-> scoreboard,
                   countdown |-> countdown, idle |-> idle, error |-> error,
                   last_updated |-> clock]
    IN  IF state = "live" /\ scoreboard = {}
        THEN [exc |-> "ValueError", ctx |-> {}]
        ELSE IF state = "pregame" /\ countdown = {}
        THEN [exc |-> "ValueError", ctx |-> {}]
        ELSE IF state = "idle" /\ idle = {}
        THEN [exc |-> "",
              ctx |-> {[fields EXCEPT !.idle = {IdleData("No games today", {})}]}]
        ELSE IF state = "error" /\ error = {}
        THEN [exc |-> "ValueError", ctx |-> {}]
        ELSE [exc |-> "", ctx |-> {fields}]

\* DisplayGame.__lt__
DisplayGameLess(a, b) == a.priority_score < b.priority_score

-----------------------------------------------------------------------------
(* The state manager: core/state_manager.py *)

default_colors ==
    ("LAS" :> <<0, 0, 0>>) @@ ("SEA" :> <<44, 82, 52>>) @@
    ("NY" :> <<134, 206, 188>>) @@ ("ATL" :> <<200, 16, 46>>) @@
    ("CHI" :> <<65, 143, 222>>) @@ ("MIN" :> <<35, 97, 146>>)

\* no teams.json entry: the default table, white for an unknown team
_get_team_color(abbreviation) ==
    IF abbreviation \in DOMAIN default_colors
    THEN default_colors[abbreviation]
    ELSE <<255, 255, 255>>

IsFavoriteGame(game) ==
    \/ Contains(favorite_teams, game.home_team.abbreviation)
    \/ Contains(favorite_teams, game.away_team.abbreviation)

\* The prioritizer's window test: hours_until <= pregame_hours, with
\* hours_until the seconds of game.date - datetime.now(timezone.utc) over 3600
PrioritizerWithinWindow(game, clock) ==
    game.date.t - clock <= pregame_hours * SecondsPerHour

ClassifierWithinWindowStrict(game, clock) ==
    game.date.t - clock < pregame_hours * SecondsPerHour

\* The classifier's window test: the same comparison, a naive start date
\* read as UTC first
ClassifierWithinWindow(game, clock) ==
    game.date.t - clock <= pregame_hours * SecondsPerHour

\* int(hours_until): truncation towards zero
WholeHours(seconds) ==
    IF seconds >= 0 THEN seconds \div SecondsPerHour
    ELSE 0 - ((0 - seconds) \div SecondsPerHour)

\* Subtracting the aware now from a naive start date raises TypeError; the
\* subtraction is reached for a game that is pregame and not live.
ScoringRaises(game) == ~is_live(game) /\ is_pregame(game) /\ ~game.date.aware

FavoriteScoreWithoutIndex(game) ==
    IF IsFavoriteGame(game) THEN BaseScore - FavoriteBonus ELSE BaseScore

FavoriteScore(game) ==
    IF IsFavoriteGame(game)
    THEN BaseScore - FavoriteBonus
            + Min(get_favorite_team_priority(game.home_team.abbreviation),
                  get_favorite_team_priority(game.away_team.abbreviation))
    ELSE BaseScore

StatusAdjustmentLivePenalised(game, clock) ==
    IF is_live(game) THEN LiveBonus
    ELSE IF is_pregame(game)
    THEN IF PrioritizerWithinWindow(game, clock)
         THEN 0 - WindowBonus ELSE FuturePenalty
    ELSE IF is_final(game) THEN FinalPenalty
    ELSE 0

StatusAdjustmentLiveAsWindow(game, clock) ==
    IF is_live(game) THEN 0 - WindowBonus
    ELSE IF is_pregame(game)
    THEN IF PrioritizerWithinWindow(game, clock)
         THEN 0 - WindowBonus ELSE FuturePenalty
    ELSE IF is_final(game) THEN FinalPenalty
    ELSE 0

StatusAdjustmentFinalUnpenalised(game, clock) ==
    IF is_live(game) THEN 0 - LiveBonus
    ELSE IF is_pregame(game)
    THEN IF PrioritizerWithinWindow(game, clock)
         THEN 0 - WindowBonus ELSE FuturePenalty
    ELSE 0

StatusAdjustmentUnknownAsLive(game, clock) ==
    IF is_live(game) THEN 0 - LiveBonus
    ELSE IF is_pregame(game)
    THEN IF PrioritizerWithinWindow(game, clock)
         THEN 0 - WindowBonus ELSE FuturePenalty
    ELSE IF is_final(game) THEN FinalPenalty
    ELSE 0 - LiveBonus

StatusAdjustment(game, clock) ==
    IF is_live(game) THEN 0 - LiveBonus
    ELSE IF is_pregame(game)
    THEN IF PrioritizerWithinWindow(game, clock)
         THEN 0 - WindowBonus ELSE FuturePenalty
    ELSE IF is_final(game) THEN FinalPenalty
    ELSE 0

PriorityOfFinalMedium(game, clock) ==
    IF IsFavoriteGame(game) THEN "HIGH"
    ELSE IF is_live(game) THEN "MEDIUM"
    ELSE IF is_pregame(game)
    THEN IF PrioritizerWithinWindow(game, clock)
         THEN "MEDIUM" ELSE "LOW"
    ELSE "MEDIUM"

PriorityOf(game, clock) ==
    IF IsFavoriteGame(game) THEN "HIGH"
    ELSE IF is_live(game) THEN "MEDIUM"
    ELSE IF is_pregame(game)
    THEN IF PrioritizerWithinWindow(game, clock)
         THEN "MEDIUM" ELSE "LOW"
    ELSE IF is_final(game) THEN "LOW"
    ELSE "MEDIUM"

\* the rule names joined with ", "; the hours inside "starts in ..h" are left out
ReasonOf(game, clock) ==
    LET fav == IF IsFavoriteGame(game) THEN <<"favorite team">> ELSE <<>>
        st == IF is_live(game) THEN <<"live">>
              ELSE IF is_pregame(game)
              THEN IF PrioritizerWithinWindow(game, clock)
                   THEN <<"starts in">> ELSE <<>>
              ELSE IF is_final(game) THEN <<"final">>
              ELSE <<>>
        parts == fav \o st
    IN  IF parts = <<>> THEN "available game"
        ELSE IF Len(parts) = 1 THEN parts[1]
        ELSE parts[1] \o ", " \o parts[2]

DisplayGame(game, clock) ==
    [game |-> game,
     priority |-> PriorityOf(game, clock),
     priority_score |-> FavoriteScore(game) + StatusAdjustment(game, clock),
     reason |-> ReasonOf(game, clock)]

\* list.sort(): stable, ordered by __lt__ alone
InsertUnsorted(dg, sorted) == <<dg>> \o sorted

RECURSIVE InsertSortedBeforeEqual(_, _)
InsertSortedBeforeEqual(dg, sorted) ==
    IF sorted = <<>> THEN <<dg>>
    ELSE IF ~DisplayGameLess(Head(sorted), dg) THEN <<dg>> \o sorted
    ELSE <<Head(sorted)>> \o InsertSortedBeforeEqual(dg, Tail(sorted))

RECURSIVE InsertSorted(_, _)
InsertSorted(dg, sorted) ==
    IF sorted = <<>> THEN <<dg>>
    ELSE IF DisplayGameLess(dg, Head(sorted)) THEN <<dg>> \o sorted
    ELSE <<Head(sorted)>> \o InsertSorted(dg, Tail(sorted))

RECURSIVE SortDisplayGames(_)
SortDisplayGames(list) ==
    IF list = <<>> THEN <<>>
    ELSE InsertSorted(list[Len(list)],
                      SortDisplayGames(SubSeq(list, 1, Len(list) - 1)))

_prioritize_games(games, clock) ==
    IF \E i \in DOMAIN games : ScoringRaises(games[i])
    THEN [exc |-> "TypeError", display_games |-> <<>>]
    ELSE [exc |-> "",
          display_games |->
              SortDisplayGames([i \in DOMAIN games |-> DisplayGame(games[i], clock)])]

_create_scoreboard_data_swapped(game) ==
    [away_team |-> game.away_team.abbreviation,
     away_score |-> game.home_team.score,
     home_team |-> game.home_team.abbreviation,
     home_score |-> game.away_team.score,
     period |-> game.clock.period,
     time_remaining |-> game.clock.display_clock,
     away_color |-> _get_team_color(game.away_team.abbreviation),
     home_color |-> _get_team_color(game.home_team.abbreviation),
     status_text |-> game.status.short_detail]

_create_scoreboard_data(game) ==
    [away_team |-> game.away_team.abbreviation,
     away_score |-> game.away_team.score,
     home_team |-> game.home_team.abbreviation,
     home_score |-> game.home_team.score,
     period |-> game.clock.period,
     time_remaining |-> game.clock.display_clock,
     away_color |-> _get_team_color(game.away_team.abbreviation),
     home_color |-> _get_team_color(game.home_team.abbreviation),
     status_text |-> game.status.short_detail]

\* a naive start date is read as UTC
_create_countdown_data(game, clock) ==
    [away_team |-> game.away_team.abbreviation,
     home_team |-> game.home_team.abbreviation,
     game_time |-> [aware |-> TRUE, t |-> game.date.t],
     time_until |-> game.date.t - clock,
     away_color |-> _get_team_color(game.away_team.abbreviation),
     home_color |-> _get_team_color(game.home_team.abbreviation)]

\* str(e)[:50] of the exceptions the cycle can meet
ExceptionText(exc) ==
    IF exc = "AttributeError" THEN "'list' object has no attribute 'get'"
    ELSE IF exc = "TypeError"
    THEN "can't subtract offset-naive and offset-aware datet"
    ELSE exc

\* favorite_games if there are any, else other_games, else all_games
GamesToConsiderAll(all_games) == all_games

GamesToConsider(all_games) ==
    LET favorite_games == SelectSeq(all_games, IsFavoriteGame)
        other_games == SelectSeq(all_games, LAMBDA g : ~IsFavoriteGame(g))
        games_to_consider ==
            IF favorite_games # <<>> THEN favorite_games ELSE other_games
    IN  IF games_to_consider = <<>> THEN all_games ELSE games_to_consider

NotAsked == [kind |-> "not_asked", events |-> <<>>]

\* min(60 * self.error_count, 300)
RetryIn(count) == Min(RetryStep * count, RetryCap)

ClassifyGameFinalWithoutScoreboard(game, clock) ==
    IF is_live(game)
    THEN DisplayContext("live", {_create_scoreboard_data(game)}, {}, {}, {}, clock)
    ELSE IF is_pregame(game)
    THEN IF ClassifierWithinWindow(game, clock)
         THEN DisplayContext("pregame", {}, {_create_countdown_data(game, clock)},
                             {}, {}, clock)
         ELSE DisplayContext("idle", {}, {},
                  {IdleData("Next game in "
                              \o ToString(WholeHours(game.date.t - clock)) \o "h",
                            {clock})},
                  {}, clock)
    ELSE IF is_final(game)
    THEN DisplayContext("final", {}, {}, {IdleData("No active games", {clock})},
                        {}, clock)
    ELSE DisplayContext("idle", {}, {}, {IdleData("No active games", {clock})},
                        {}, clock)

\* The classification of the selected game
ClassifyGame(game, clock) ==
    IF is_live(game)
    THEN DisplayContext("live", {_create_scoreboard_data(game)}, {}, {}, {}, clock)
    ELSE IF is_pregame(game)
    THEN IF ClassifierWithinWindow(game, clock)
         THEN DisplayContext("pregame", {}, {_create_countdown_data(game, clock)},
                             {}, {}, clock)
         ELSE DisplayContext("idle", {}, {},
                  {IdleData("Next game in "
                              \o ToString(WholeHours(game.date.t - clock)) \o "h",
                            {clock})},
                  {}, clock)
    ELSE IF is_final(game)
    THEN DisplayContext("final", {_create_scoreboard_data(game)}, {}, {}, {}, clock)
    ELSE DisplayContext("idle", {}, {}, {IdleData("No active games", {clock})},
                        {}, clock)

\* The two requests of a cycle; tomorrow is not asked once today has raised
FetchGames(today, tomorrow, clock) ==
    LET today_games == get_scoreboard(today, clock)
        tomorrow_games == get_scoreboard(tomorrow, clock)
    IN  IF today_games.exc # ""
        THEN [exc |-> today_games.exc, asked_tomorrow |-> FALSE, all_games |-> <<>>]
        ELSE [exc |-> tomorrow_games.exc, asked_tomorrow |-> TRUE,
              all_games |-> today_games.games \o tomorrow_games.games]

\* The try block of get_current_display_context: the exception it ends in
\* (or ""), the DisplayGame it selected and the context it returned
TryBlock(fetched, prioritized, clock) ==
    IF fetched.exc # ""
    THEN [exc |-> fetched.exc, selected |-> {}, returned |-> {}]
    ELSE IF prioritized.exc # ""
    THEN [exc |-> prioritized.exc, selected |-> {}, returned |-> {}]
    ELSE IF prioritized.display_games = <<>>
    THEN [exc |-> "", selected |-> {},
          returned |-> DisplayContext("idle", {}, {},
                           {IdleData("No games today", {clock})}, {}, clock).ctx]
    ELSE [exc |-> "", selected |-> {prioritized.display_games[1]},
          returned |-> ClassifyGame(prioritized.display_games[1].game, clock).ctx]

RunCycle(today, tomorrow, clock) ==
    LET fetched == FetchGames(today, tomorrow, clock)
    IN  TryBlock(fetched,
                 _prioritize_games(GamesToConsider(fetched.all_games), clock),
                 clock)

GameStateHistory(game_id, clock) ==
    [game_id |-> game_id, previous_state |-> "", current_state |-> "",
     last_updated |-> clock, score_changes |-> <<>>]

\* game_history after _update_game_history(game); current_game is still the
\* game of the cycle before
_update_game_history(game, clock) ==
    LET history == IF game.id \in DOMAIN game_history
                   THEN game_history[game.id]
                   ELSE GameStateHistory(game.id, clock)
        score_changed ==
            /\ is_live(game)
            /\ \E cg \in current_game :
                  /\ cg.id = game.id
                  /\ \/ game.home_team.score # cg.home_team.score
                     \/ game.away_team.score # cg.away_team.score
        score_change == [timestamp |-> clock,
                         away_score |-> game.away_team.score,
                         home_score |-> game.home_team.score,
                         period |-> game.clock.period,
                         time |-> game.clock.display_clock]
    IN  (game.id :> [history EXCEPT
                        !.previous_state = history.current_state,
                        !.current_state = game.status.state,
                        !.last_updated = clock,
                        !.score_changes = IF score_changed
                                          THEN Append(@, score_change) ELSE @])
            @@ game_history

get_current_display_context_sticky(today, tomorrow) ==
    \E cycle \in {RunCycle(today, tomorrow, now)} :
        /\ api_today' = today
        /\ api_tomorrow' =
             IF get_scoreboard(today, now).exc # "" THEN NotAsked ELSE tomorrow
        /\ IF cycle.exc # ""
           THEN /\ error_count < MaxErrors
                /\ error_count' = error_count + 1
                /\ context' =
                     DisplayContext("error", {}, {}, {},
                         {ErrorData("API Error: " \o ExceptionText(cycle.exc),
                                    "API_FAILED", RetryIn(error_count + 1))},
                         now).ctx
                /\ UNCHANGED <<current_game, current_display_state, last_update>>
           ELSE IF cycle.selected = {}
           THEN /\ context' = cycle.returned
                /\ UNCHANGED <<current_game, current_display_state,
                               last_update, error_count>>
           ELSE \E ctx \in cycle.returned :
                    /\ current_game' = {dg.game : dg \in cycle.selected}
                    /\ last_update' = now
                    /\ error_count' = 0
                    /\ current_display_state' =
                         IF ctx.state \in {"live", "pregame", "final"}
                         THEN ctx.state ELSE current_display_state
                    /\ context' =
                         IF current_display_state = "live" /\ ctx.state = "idle"
                         THEN context ELSE cycle.returned

get_current_display_context_writes_idle(today, tomorrow) ==
    \E cycle \in {RunCycle(today, tomorrow, now)} :
        /\ api_today' = today
        /\ api_tomorrow' =
             IF get_scoreboard(today, now).exc # "" THEN NotAsked ELSE tomorrow
        /\ IF cycle.exc # ""
           THEN /\ error_count < MaxErrors
                /\ error_count' = error_count + 1
                /\ context' =
                     DisplayContext("error", {}, {}, {},
                         {ErrorData("API Error: " \o ExceptionText(cycle.exc),
                                    "API_FAILED", RetryIn(error_count + 1))},
                         now).ctx
                /\ UNCHANGED <<current_game, current_display_state, last_update>>
           ELSE IF cycle.selected = {}
           THEN /\ context' = cycle.returned
                /\ UNCHANGED <<current_game, current_display_state,
                               last_update, error_count>>
           ELSE \E ctx \in cycle.returned :
                    /\ current_game' = {dg.game : dg \in cycle.selected}
                    /\ last_update' = now
                    /\ error_count' = 0
                    /\ current_display_state' = ctx.state
                    /\ context' = cycle.returned

\* One refresh cycle against the two answers of the upstream
get_current_display_context(today, tomorrow) ==
    \E cycle \in {RunCycle(today, tomorrow, now)} :
        /\ api_today' = today
        /\ api_tomorrow' =
             IF get_scoreboard(today, now).exc # "" THEN NotAsked ELSE tomorrow
        /\ IF cycle.exc # ""
           THEN /\ error_count < MaxErrors
                /\ error_count' = error_count + 1
                /\ context' =
                     DisplayContext("error", {}, {}, {},
                         {ErrorData("API Error: " \o ExceptionText(cycle.exc),
                                    "API_FAILED", RetryIn(error_count + 1))},
                         now).ctx
                /\ UNCHANGED <<current_game, current_display_state, last_update>>
           ELSE IF cycle.selected = {}
           THEN /\ context' = cycle.returned
                /\ UNCHANGED <<current_game, current_display_state,
                               last_update, error_count>>
           ELSE \E ctx \in cycle.returned :
                    /\ current_game' = {dg.game : dg \in cycle.selected}
                    /\ last_update' = now
                    /\ error_count' = 0
                    /\ current_display_state' =
                         IF ctx.state \in {"live", "pregame", "final"}
                         THEN ctx.state ELSE current_display_state
                    /\ context' = cycle.returned

should_refresh_always(clock) == TRUE

should_refresh_never(clock) == FALSE

should_refresh(clock) == clock >= next_refresh

RetrySecondsDefault(ctx) == DefaultRetry

\* context.error.retry_in if context.error else 60
RetrySeconds(ctx) ==
    IF ctx.error # {} THEN (CHOOSE e \in ctx.error : TRUE).retry_in
    ELSE DefaultRetry

schedule_next_refresh_idle_as_pregame(ctx, clock) ==
    IF ctx.state = "live" THEN clock + update_interval
    ELSE IF ctx.state = "pregame"
    THEN IF /\ ctx.countdown # {}
            /\ \A cd \in ctx.countdown :
                  total_minutes_until(cd) <= FinalHourMinutes
         THEN clock + FinalHourCadence
         ELSE clock + PregameCadence
    ELSE IF ctx.state = "error" THEN clock + RetrySeconds(ctx)
    ELSE clock + PregameCadence

\* The value schedule_next_refresh gives next_refresh
schedule_next_refresh(ctx, clock) ==
    IF ctx.state = "live" THEN clock + update_interval
    ELSE IF ctx.state = "pregame"
    THEN IF /\ ctx.countdown # {}
            /\ \A cd \in ctx.countdown :
                  total_minutes_until(cd) <= FinalHourMinutes
         THEN clock + FinalHourCadence
         ELSE clock + PregameCadence
    ELSE IF ctx.state = "error" THEN clock + RetrySeconds(ctx)
    ELSE clock + IdleCadence

\* The dictionary get_status_summary returns; None is the empty set
get_status_summary ==
    [current_state |-> current_display_state,
     current_game |-> {cg.away_team.abbreviation \o "@"
                          \o cg.home_team.abbreviation : cg \in current_game},
     last_update |-> last_update,
     next_refresh |-> next_refresh,
     error_count |-> error_count,
     favorite_teams |-> favorite_teams,
     games_tracked |-> Cardinality(DOMAIN game_history)]

-----------------------------------------------------------------------------
(* The upstream: the answers the ESPN scoreboard endpoint can give *)

Offset(t) == [kind |-> "iso_offset", t |-> t]
Unparsable == [kind |-> "invalid", t |-> 0]

Event(id, date, state, completed, comps, away, away_score, home, home_score, period, displayClock, shortDetail) ==
    [id |-> id, date |-> date, state |-> state, completed |-> completed,
     comps |-> comps, away |-> away, away_score |-> away_score,
     home |-> home, home_score |-> home_score, period |-> period,
     displayClock |-> displayClock, shortDetail |-> shortDetail]

LiveFavorite ==
    Event("401", Offset(0), {"in"}, FALSE, "ok", "MIN", "65", "SEA", "70",
          3, "5:32", "3Q")
FinalFavorite ==
    Event("401", Offset(0), {"post"}, TRUE, "ok", "MIN", "70", "SEA", "81",
          4, "0:00", "Final")
PregameFavorite ==
    Event("402", Offset(7201), {"pre"}, FALSE, "ok", "LAS", "0", "NY", "0",
          1, "0:00", "7:00 PM")
PregameSoon ==
    Event("402", Offset(3630), {"pre"}, FALSE, "ok", "LAS", "0", "NY", "0",
          1, "0:00", "7:00 PM")
CompletedPregame ==
    Event("402", Offset(7201), {"pre"}, TRUE, "ok", "LAS", "0", "NY", "0",
          1, "0:00", "7:00 PM")
FinalSeattleAway ==
    Event("408", Offset(0), {"post"}, TRUE, "ok", "SEA", "81", "LAS", "65",
          4, "0:00", "Final")
FinalSecond ==
    Event("402", Offset(0), {"post"}, TRUE, "ok", "LAS", "65", "NY", "81",
          4, "0:00", "Final")
LiveFavoriteTied ==
    Event("401", Offset(0), {"in"}, FALSE, "ok", "MIN", "70", "SEA", "70",
          3, "1:05", "3Q")
LiveCompleted ==
    Event("403", Offset(0), {"in"}, TRUE, "ok", "CHI", "81", "ATL", "65",
          4, "0:00", "4Q")
LiveOther ==
    Event("403", Offset(0), {"in"}, FALSE, "ok", "CHI", "81", "ATL", "65",
          4, "2:10", "4Q")
FinalOther ==
    Event("403", Offset(0), {"post"}, FALSE, "ok", "CHI", "81", "ATL", "65",
          4, "0:00", "Final")
NoStatus ==
    Event("403", Offset(0), {}, FALSE, "ok", "CHI", "0", "ATL", "0",
          1, "", "")
UnparsableDate ==
    Event("404", Unparsable, {"pre"}, FALSE, "ok", "CHI", "0", "MIN", "0",
          1, "0:00", "7:00 PM")
NoCompetitors ==
    Event("405", Offset(0), {"in"}, FALSE, "empty", "", "", "", "",
          2, "1:00", "2Q")
NoCompetitions ==
    Event("406", Offset(0), {"in"}, FALSE, "none", "", "", "", "",
          1, "", "")
LiveNewYork ==
    Event("409", Offset(0), {"in"}, FALSE, "ok", "LAS", "70", "NY", "65",
          2, "3:00", "2Q")
UnknownNewYork ==
    Event("409", Offset(0), {}, FALSE, "ok", "LAS", "0", "NY", "0",
          1, "", "")
PregameSeattleSoon ==
    Event("410", Offset(3600), {"pre"}, FALSE, "ok", "CHI", "0", "SEA", "0",
          1, "0:00", "8:00 PM")
PregameSeattleFar ==
    Event("410", Offset(10800), {"pre"}, FALSE, "ok", "CHI", "0", "SEA", "0",
          1, "0:00", "10:00 PM")
PregameTomorrow ==
    Event("407", Offset(90000), {"pre"}, FALSE, "ok", "LAS", "0", "ATL", "0",
          1, "0:00", "7:00 PM")

\* the event lists of at most n events of the pool, an event id at most once
EventLists(pool, n) ==
    {s \in UNION {[1..k -> pool] : k \in 0..n} :
        \A i, j \in DOMAIN s : i # j => s[i].id # s[j].id}

Failed == [kind |-> "failed", events |-> <<>>]
NotObject == [kind |-> "not_object", events |-> <<>>]
Events(list) == [kind |-> "ok", events |-> list]

\* Slates of well-formed and odd records, every request answered
SlatePool == {LiveFavorite, FinalFavorite, PregameFavorite, CompletedPregame,
              LiveCompleted, FinalOther, NoStatus, NoCompetitions}
SlateToday == {Events(s) : s \in EventLists(SlatePool, MaxToday)}
SlateTomorrow == {Events(s) : s \in EventLists({PregameTomorrow}, MaxTomorrow)}

\* Failing requests and malformed records
FaultPool == {LiveFavorite, FinalOther, UnparsableDate, NoCompetitors}
FaultToday ==
    {Failed, NotObject} \cup {Events(s) : s \in EventLists(FaultPool, MaxToday)}
FaultTomorrow == {Failed, Events(<<>>)}

\* One game followed through its states next to a game that is never selected
HistoryPool == {LiveFavorite, LiveFavoriteTied, FinalFavorite, PregameFavorite,
                FinalOther}
HistoryToday ==
    {NotObject, Events(<<>>), Events(<<LiveFavorite, FinalOther>>)}
        \cup {Events(<<e>>) : e \in HistoryPool}
HistoryTomorrow == {Events(<<>>)}

\* Games of every status side by side, with and without favorites
MixPool == {LiveNewYork, UnknownNewYork, PregameSeattleSoon, PregameSeattleFar,
            FinalFavorite, LiveOther, FinalOther, NoStatus}
MixToday ==
    {Failed, NotObject} \cup {Events(s) : s \in EventLists(MixPool, MaxToday)}
MixTomorrow == {Events(s) : s \in EventLists({PregameTomorrow}, MaxTomorrow)}

\* What the rendering loop is answered: one context of every state
RenderToday ==
    {NotObject, Events(<<>>)}
        \cup {Events(<<e>>) : e \in {LiveFavorite, PregameSoon, FinalFavorite}}
RenderTomorrow == {Events(<<>>)}

\* What the main loop is answered: one record or none, or a failure
LoopPool == {LiveFavorite, FinalFavorite, PregameFavorite, PregameSoon,
             UnparsableDate}
LoopToday ==
    {Failed, NotObject, Events(<<>>)} \cup {Events(<<e>>) : e \in LoopPool}
LoopTomorrow == {Events(<<>>)}

-----------------------------------------------------------------------------
(* The state manager polled over and over *)

NoArgs == [state |-> "idle", scoreboard |-> {}, countdown |-> {}, idle |-> {},
           error |-> {}]

Init ==
    /\ now = 0
    /\ api_today = NotAsked
    /\ api_tomorrow = NotAsked
    /\ context = {}
    /\ current_game = {}
    /\ current_display_state = "idle"
    /\ last_update = 0
    /\ error_count = 0
    /\ prio_games = <<>>
    /\ prio_result = {}
    /\ ctor_args = NoArgs
    /\ ctor_result = {}
    /\ next_refresh = now
    /\ running = TRUE
    /\ pc = "while"
    /\ _last_context = {}
    /\ game_history = <<>>
    /\ frame_count = 0
    /\ needs_redraw = TRUE
    /\ last_content_hash = {}
    /\ rendered = FALSE
    /\ refreshed = FALSE

Refresh ==
    /\ \E today \in SlateToday, tomorrow \in SlateTomorrow :
          get_current_display_context(today, tomorrow)
    /\ UNCHANGED <<now, prio_games, prio_result, ctor_args, ctor_result>>
    /\ UNCHANGED loop_vars
    /\ UNCHANGED track_vars

RefreshFaulty ==
    /\ \E today \in FaultToday, tomorrow \in FaultTomorrow :
          get_current_display_context(today, tomorrow)
    /\ UNCHANGED <<now, prio_games, prio_result, ctor_args, ctor_result>>
    /\ UNCHANGED loop_vars
    /\ UNCHANGED track_vars

Tick ==
    /\ now < MaxNow
    /\ now' = now + 1
    /\ UNCHANGED <<api_today, api_tomorrow, context, current_game,
                   current_display_state, last_update, error_count,
                   prio_games, prio_result, ctor_args, ctor_result>>
    /\ UNCHANGED loop_vars
    /\ UNCHANGED track_vars

Next == Refresh \/ Tick

Spec == Init /\ [][Next]_vars

\* A cycle followed by the scheduling of the next one, as the loop calls them
RefreshScheduled ==
    /\ \E today \in MixToday, tomorrow \in MixTomorrow :
          get_current_display_context(today, tomorrow)
    /\ \E ctx \in context' : next_refresh' = schedule_next_refresh(ctx, now)
    /\ UNCHANGED <<now, prio_games, prio_result, ctor_args, ctor_result>>
    /\ UNCHANGED <<running, pc, _last_context>>
    /\ UNCHANGED track_vars

\* The clock stands still here: the cycles differ in their answers alone
NextMix == RefreshScheduled

SpecMix == Init /\ [][NextMix]_vars

NextFaulty == RefreshFaulty \/ Tick

SpecFaulty == Init /\ [][NextFaulty]_vars

-----------------------------------------------------------------------------
(* The state manager polled over and over, its game_history observed *)

\* The cycle together with its call of _update_game_history on the selected
\* game
TrackedRefresh ==
    /\ \E today \in HistoryToday, tomorrow \in HistoryTomorrow :
          /\ get_current_display_context(today, tomorrow)
          /\ \E cycle \in {RunCycle(today, tomorrow, now)} :
                IF cycle.exc = "" /\ cycle.selected # {}
                THEN \E dg \in cycle.selected :
                        /\ game_history' = _update_game_history(dg.game, now)
                        /\ Len(game_history'[dg.game.id].score_changes)
                              <= MaxChanges
                ELSE game_history' = game_history
    /\ UNCHANGED <<now, prio_games, prio_result, ctor_args, ctor_result>>
    /\ UNCHANGED loop_vars
    /\ UNCHANGED <<frame_count, needs_redraw, last_content_hash, rendered,
                   refreshed>>

\* The clock stands still here: it only stamps the records
NextHistory == TrackedRefresh

SpecHistory == Init /\ [][NextHistory]_vars

-----------------------------------------------------------------------------
(* _prioritize_games called on its own, on any mix of games *)

PrioPool ==
    {_parse_game_data(e, 0) :
        e \in {LiveFavorite, FinalFavorite, FinalSeattleAway, FinalSecond,
               PregameFavorite,
               LiveOther, LiveCompleted, FinalOther, NoStatus, UnparsableDate,
               PregameTomorrow}}

PrioInputs ==
    {s \in UNION {[1..k -> PrioPool] : k \in 0..MaxPrio} :
        \A i, j \in DOMAIN s : i # j => s[i].id # s[j].id}

InitPrio ==
    /\ now \in 0..MaxNow
    /\ api_today = NotAsked
    /\ api_tomorrow = NotAsked
    /\ context = {}
    /\ current_game = {}
    /\ current_display_state = "idle"
    /\ last_update = 0
    /\ error_count = 0
    /\ prio_games \in PrioInputs
    /\ prio_result = {}
    /\ ctor_args = NoArgs
    /\ ctor_result = {}
    /\ next_refresh = now
    /\ running = TRUE
    /\ pc = "while"
    /\ _last_context = {}
    /\ game_history = <<>>
    /\ frame_count = 0
    /\ needs_redraw = TRUE
    /\ last_content_hash = {}
    /\ rendered = FALSE
    /\ refreshed = FALSE

Prioritize ==
    /\ prio_result = {}
    /\ prio_result' = {_prioritize_games(prio_games, now)}
    /\ UNCHANGED <<now, api_today, api_tomorrow, context, current_game,
                   current_display_state, last_update, error_count,
                   prio_games, ctor_args, ctor_result>>
    /\ UNCHANGED loop_vars
    /\ UNCHANGED track_vars

NextPrio == Prioritize

SpecPrio == InitPrio /\ [][NextPrio]_vars

-----------------------------------------------------------------------------
(* DisplayContext constructed on its own, with any payloads *)

SampleScoreboard == _create_scoreboard_data(_parse_game_data(LiveFavorite, 0))
SampleCountdown == _create_countdown_data(_parse_game_data(PregameFavorite, 0), 0)
SampleIdle == IdleData("No active games", {0})
SampleError == ErrorData("API Error: timeout", "API_FAILED", RetryStep)

CtorArgs ==
    [state : DisplayStates,
     scoreboard : {{}, {SampleScoreboard}},
     countdown : {{}, {SampleCountdown}},
     idle : {{}, {SampleIdle}},
     error : {{}, {SampleError}}]

InitCtor ==
    /\ now = 0
    /\ api_today = NotAsked
    /\ api_tomorrow = NotAsked
    /\ context = {}
    /\ current_game = {}
    /\ current_display_state = "idle"
    /\ last_update = 0
    /\ error_count = 0
    /\ prio_games = <<>>
    /\ prio_result = {}
    /\ ctor_args \in CtorArgs
    /\ ctor_result = {}
    /\ next_refresh = now
    /\ running = TRUE
    /\ pc = "while"
    /\ _last_context = {}
    /\ game_history = <<>>
    /\ frame_count = 0
    /\ needs_redraw = TRUE
    /\ last_content_hash = {}
    /\ rendered = FALSE
    /\ refreshed = FALSE

Construct ==
    /\ ctor_result = {}
    /\ ctor_result' = {DisplayContext(ctor_args.state, ctor_args.scoreboard,
                                      ctor_args.countdown, ctor_args.idle,
                                      ctor_args.error, now)}
    /\ UNCHANGED <<now, api_today, api_tomorrow, context, current_game,
                   current_display_state, last_update, error_count,
                   prio_games, prio_result, ctor_args>>
    /\ UNCHANGED loop_vars
    /\ UNCHANGED track_vars

NextCtor == Construct

SpecCtor == InitCtor /\ [][NextCtor]_vars

-----------------------------------------------------------------------------
(* The main loop: main.py.  A step of the clock stands for the sleep at the *)
(* end of a tick and whatever else delays the loop; the clock stops at      *)
(* MaxClock.  Rendering is the one part of a tick that can raise.           *)

ClockSteps == {60, 300, 900}

Elapse(clock, d) == Min(clock + d, MaxClock)

LoopConditionAlways == TRUE

\* while running:
LoopCondition == running

AfterExceptionBreak == "finally"

\* except Exception: log, time.sleep(5), and on to the loop condition
AfterException == "while"

\* signal_handler: SIGINT or SIGTERM at any point of the loop
signal_handler ==
    /\ running
    /\ pc # "done"
    /\ running' = FALSE
    /\ UNCHANGED <<now, api_today, api_tomorrow, context, current_game,
                   current_display_state, last_update, error_count,
                   prio_games, prio_result, ctor_args, ctor_result,
                   next_refresh, pc, _last_context>>
    /\ UNCHANGED track_vars

WhileRunning ==
    /\ pc = "while"
    /\ pc' = IF LoopCondition THEN "body" ELSE "finally"
    /\ UNCHANGED <<now, api_today, api_tomorrow, context, current_game,
                   current_display_state, last_update, error_count,
                   prio_games, prio_result, ctor_args, ctor_result,
                   next_refresh, running, _last_context>>
    /\ UNCHANGED track_vars

\* One pass of the loop body: fetch and schedule when a refresh is due or
\* nothing is cached, else reuse the cached context; cache it; render; sleep.
MainTick ==
    /\ pc = "body"
    /\ IF should_refresh(now) \/ _last_context = {}
       THEN /\ \E today \in LoopToday, tomorrow \in LoopTomorrow :
                  get_current_display_context(today, tomorrow)
            /\ \E ctx \in context' :
                  next_refresh' = schedule_next_refresh(ctx, now)
            /\ _last_context' = context'
       ELSE /\ _last_context' = _last_context
            /\ UNCHANGED <<api_today, api_tomorrow, context, current_game,
                           current_display_state, last_update, error_count,
                           next_refresh>>
    /\ \/ /\ pc' = "except"
          /\ now' = now
       \/ /\ pc' = "while"
          /\ \E d \in ClockSteps : now' = Elapse(now, d)
    /\ UNCHANGED <<prio_games, prio_result, ctor_args, ctor_result, running>>
    /\ UNCHANGED track_vars

HandleException ==
    /\ pc = "except"
    /\ pc' = AfterException
    /\ \E d \in ClockSteps : now' = Elapse(now, d)
    /\ UNCHANGED <<api_today, api_tomorrow, context, current_game,
                   current_display_state, last_update, error_count,
                   prio_games, prio_result, ctor_args, ctor_result,
                   next_refresh, running, _last_context>>
    /\ UNCHANGED track_vars

\* finally: renderer.shutdown()
Finally ==
    /\ pc = "finally"
    /\ pc' = "done"
    /\ UNCHANGED <<now, api_today, api_tomorrow, context, current_game,
                   current_display_state, last_update, error_count,
                   prio_games, prio_result, ctor_args, ctor_result,
                   next_refresh, running, _last_context>>
    /\ UNCHANGED track_vars

ContentHashWithoutFrame(ctx, frames) ==
    [state |-> ctx.state, idle |-> ctx.idle, scoreboard |-> ctx.scoreboard,
     countdown |-> ctx.countdown, frame |-> 0 - 1]

\* The tuple main hashes: state and idle payload for Idle; state, scoreboard,
\* countdown and frame_count // 30 otherwise
ContentHash(ctx, frames) ==
    IF ctx.state = "idle"
    THEN [state |-> ctx.state, idle |-> ctx.idle, scoreboard |-> {},
          countdown |-> {}, frame |-> 0 - 1]
    ELSE [state |-> ctx.state, idle |-> {}, scoreboard |-> ctx.scoreboard,
          countdown |-> ctx.countdown, frame |-> frames \div FramesPerStep]

\* One pass of the loop body with its redraw bookkeeping.  The render is
\* called when needs_redraw is set and may raise; then neither the flag is
\* cleared nor the frame counted.  The sleep of a tenth of a second ends in
\* the same second of the clock or in the next.
RenderTick ==
    /\ pc = "body"
    /\ frame_count < MaxFrames
    /\ \E due \in {should_refresh(now) \/ _last_context = {}} :
          /\ refreshed' = due
          /\ IF due
             THEN /\ \E today \in RenderToday, tomorrow \in RenderTomorrow :
                        get_current_display_context(today, tomorrow)
                  /\ \E ctx \in context' :
                        next_refresh' = schedule_next_refresh(ctx, now)
                  /\ _last_context' = context'
             ELSE /\ _last_context' = _last_context
                  /\ UNCHANGED <<api_today, api_tomorrow, context, current_game,
                                 current_display_state, last_update,
                                 error_count, next_refresh>>
          /\ \E ctx \in _last_context' :
                \E content_hash \in {ContentHash(ctx, frame_count)} :
                    /\ last_content_hash' = {content_hash}
                    /\ rendered' = (\/ due
                                    \/ needs_redraw
                                    \/ {content_hash} # last_content_hash)
    /\ \/ /\ rendered'
          /\ needs_redraw' = TRUE
          /\ pc' = "except"
          /\ UNCHANGED <<frame_count, now>>
       \/ /\ needs_redraw' = FALSE
          /\ frame_count' = frame_count + 1
          /\ pc' = "while"
          /\ \E d \in {0, 1} : now + d <= MaxSeconds /\ now' = now + d
    /\ UNCHANGED <<prio_games, prio_result, ctor_args, ctor_result, running,
                   game_history>>

\* except Exception: log and time.sleep(5)
RenderException ==
    /\ pc = "except"
    /\ pc' = AfterException
    /\ now + ExceptionSleep <= MaxSeconds
    /\ now' = now + ExceptionSleep
    /\ UNCHANGED <<api_today, api_tomorrow, context, current_game,
                   current_display_state, last_update, error_count,
                   prio_games, prio_result, ctor_args, ctor_result,
                   next_refresh, running, _last_context>>
    /\ UNCHANGED track_vars

NextRender == WhileRunning \/ RenderTick \/ RenderException

SpecRender == Init /\ [][NextRender]_vars

NextLoop ==
    signal_handler \/ WhileRunning \/ MainTick \/ HandleException \/ Finally

SpecLoop == Init /\ [][NextLoop]_vars

\* The interpreter keeps running the loop; signals arrive or not
SpecLoopFair ==
    /\ SpecLoop
    /\ WF_vars(WhileRunning)
    /\ WF_vars(MainTick)
    /\ WF_vars(HandleException)
    /\ WF_vars(Finally)

-----------------------------------------------------------------------------
(* Properties *)

\* The cycle that returned context c, run again on the answers it received
CycleOf(c) == RunCycle(api_today, api_tomorrow, c.last_updated)

\* C1: when a scoreboard request of the cycle failed, the cycle returns
\* state Error with code API_FAILED, never an Idle context.
FailedFetchYieldsError ==
    \A c \in context :
        (api_today.kind = "failed" \/ api_tomorrow.kind = "failed") =>
            /\ c.state = "error"
            /\ \A e \in c.error : e.error_code = "API_FAILED"

\* C2: after a cycle that returned a context other than Error, error_count
\* is 0.
NonErrorResetsErrorCount ==
    \A c \in context : c.state # "error" => error_count = 0

\* C3: in the list _prioritize_games returns, every game with a favorite
\* team stands before every game without one.
HasFavorite(game) ==
    \/ game.home_team.abbreviation \in {"SEA", "NY"}
    \/ game.away_team.abbreviation \in {"SEA", "NY"}

FavoritesFirst ==
    \A r \in prio_result :
        r.exc = "" =>
            \A i, j \in DOMAIN r.display_games :
                /\ HasFavorite(r.display_games[i].game)
                /\ ~HasFavorite(r.display_games[j].game)
                => i < j

\* C4: the list _prioritize_games returns holds every game of its input
\* exactly once, one DisplayGame each, in non-decreasing priority_score; the
\* empty input gives the empty list.
PrioritizedIsSortedPermutation ==
    \A r \in prio_result :
        r.exc = "" =>
            /\ Len(r.display_games) = Len(prio_games)
            /\ \A i \in DOMAIN prio_games :
                  Cardinality({j \in DOMAIN r.display_games :
                                  r.display_games[j].game = prio_games[i]}) = 1
            /\ \A i, j \in DOMAIN r.display_games :
                  i < j => r.display_games[i].priority_score
                              <= r.display_games[j].priority_score
            /\ (prio_games = <<>> => r.display_games = <<>>)

\* a call that had to move a game to the front and met equal scores
PrioritizedReordered ==
    \E r \in prio_result :
        /\ r.exc = ""
        /\ Len(prio_games) >= 2
        /\ r.display_games[1].game # prio_games[1]
        /\ \E i \in DOMAIN r.display_games :
              i > 1 /\ r.display_games[i].priority_score
                          = r.display_games[i - 1].priority_score

\* C5: in a run of consecutive Error cycles the first carries retry_in 60
\* and each later one min(previous + 60, 300), and every Error cycle adds
\* exactly one to error_count.
BackoffFollowsRun ==
    [][\A c2 \in context' :
          (c2.state = "error" /\ error_count' # error_count) =>
              /\ error_count' = error_count + 1
              /\ \A e2 \in c2.error :
                    IF \E c \in context : c.state = "error"
                    THEN \A c \in context : \A e \in c.error :
                            e2.retry_in = Min(e.retry_in + 60, 300)
                    ELSE e2.retry_in = 60]_vars

\* C6: a batch holding a malformed record (no competitors, unparsable
\* start date) is classified exactly as the batch without that record, and
\* so does not end in Error when the well-formed records alone do not.
Malformed(event) == event.comps # "ok" \/ event.date.kind # "iso_offset"

WellFormedOnly(answer) ==
    [answer EXCEPT !.events = SelectSeq(@, LAMBDA e : ~Malformed(e))]

MalformedRecordIsolated ==
    \A c \in context :
        LET reference == RunCycle(WellFormedOnly(api_today),
                                  WellFormedOnly(api_tomorrow), c.last_updated)
        IN  reference.exc = "" =>
                /\ c.state # "error"
                /\ \A ref \in reference.returned :
                      /\ c.state = ref.state
                      /\ c.scoreboard = ref.scoreboard
                      /\ c.countdown = ref.countdown
                      /\ c.idle = ref.idle

\* C7: a DisplayContext whose payloads do not match its state (the payload
\* of the state missing, or a payload of another state populated) is
\* rejected by the constructor.
PayloadOf(state) ==
    IF state \in {"live", "final"} THEN "scoreboard"
    ELSE IF state = "pregame" THEN "countdown"
    ELSE IF state = "idle" THEN "idle"
    ELSE "error"

PayloadMatches(args) ==
    \A f \in {"scoreboard", "countdown", "idle", "error"} :
        (args[f] # {}) <=> (f = PayloadOf(args.state))

MismatchRejected ==
    \A r \in ctor_result : ~PayloadMatches(ctor_args) => r.exc # ""

\* C8 as stated: whenever the selected game has its completed flag set or
\* its status is post, the cycle returns Final with the scoreboard of that
\* game.
SelectedScoreboard(game) ==
    [away_team |-> game.away_team.abbreviation,
     away_score |-> game.away_team.score,
     home_team |-> game.home_team.abbreviation,
     home_score |-> game.home_team.score,
     period |-> game.clock.period,
     time_remaining |-> game.clock.display_clock]

ShowsGame(c, game) ==
    /\ c.scoreboard # {}
    /\ \A sb \in c.scoreboard :
          \A f \in DOMAIN SelectedScoreboard(game) :
              sb[f] = SelectedScoreboard(game)[f]

CompletedOrPostYieldsFinal ==
    \A c \in context : \A dg \in CycleOf(c).selected :
        (dg.game.status.completed \/ dg.game.status.state = "post") =>
            c.state = "final" /\ ShowsGame(c, dg.game)

\* C8, amended: whenever the selected game has its completed flag set or
\* its status is post, and its status is neither in nor pre, the cycle
\* returns Final with the scoreboard of that game.
FinalNotLiveNotPregameYieldsFinal ==
    \A c \in context : \A dg \in CycleOf(c).selected :
        /\ dg.game.status.completed \/ dg.game.status.state = "post"
        /\ dg.game.status.state \notin {"in", "pre"}
        => c.state = "final" /\ ShowsGame(c, dg.game)

\* a single final game without a favorite team is shown as Final
SingleFinalShown ==
    /\ api_today = Events(<<FinalOther>>)
    /\ api_tomorrow = Events(<<>>)
    /\ \E c \in context : c.state = "final"

\* C9: whenever the selected game is live, the cycle returns Live and the
\* scoreboard carries the teams, scores, period and clock text of that game.
LiveShowsSelectedScores ==
    \A c \in context : \A dg \in CycleOf(c).selected :
        dg.game.status.state = "in" =>
            c.state = "live" /\ ShowsGame(c, dg.game)

\* a live favorite game selected among two games, shown with its own scores
LiveFavoriteShown ==
    /\ Len(api_today.events) = 2
    /\ \E c \in context :
          /\ c.state = "live"
          /\ \E sb \in c.scoreboard :
                /\ sb.away_team = "MIN" /\ sb.away_score = 65
                /\ sb.home_team = "SEA" /\ sb.home_score = 70

\* C10: whenever the selected game is pregame, the cycle returns Pregame
\* with a countdown exactly when the time until the start is at most
\* pregame_hours, and otherwise Idle with the message "Next game in Nh", N
\* the whole hours until the start; the game got the in-window adjustment of
\* its score exactly when it is shown as Pregame.
PregameWindowDecides ==
    \A c \in context : \A dg \in CycleOf(c).selected :
        dg.game.status.state = "pre" =>
            LET until == dg.game.date.t - c.last_updated
                inside == until <= pregame_hours * 3600
                favorite == HasFavorite(dg.game)
                unadjusted ==
                    IF ~favorite THEN 100
                    ELSE IF "SEA" \in {dg.game.home_team.abbreviation,
                                       dg.game.away_team.abbreviation}
                    THEN 50 ELSE 51
            IN  /\ (c.state = "pregame") <=> inside
                /\ inside =>
                      /\ c.countdown # {}
                      /\ \A cd \in c.countdown :
                            /\ cd.time_until = until
                            /\ cd.away_team = dg.game.away_team.abbreviation
                            /\ cd.home_team = dg.game.home_team.abbreviation
                      /\ dg.priority_score = unadjusted - 10
                /\ ~inside =>
                      /\ c.state = "idle"
                      /\ \A idle \in c.idle :
                            idle.message =
                                "Next game in " \o ToString(until \div 3600) \o "h"
                      /\ c.idle # {}
                      /\ dg.priority_score = unadjusted + 10

\* a game starting in exactly pregame_hours is shown as Pregame
PregameAtWindowEdge ==
    \E c \in context :
        /\ c.state = "pregame"
        /\ \E cd \in c.countdown : cd.time_until = pregame_hours * 3600

\* C11: when both fetched game lists are empty, the cycle returns Idle with
\* the non-empty message "No games today", and next_refresh is set 15
\* minutes after the time of the cycle.
BothListsEmpty ==
    /\ api_today.kind \in {"ok", "failed"} /\ api_today.events = <<>>
    /\ api_tomorrow.kind \in {"ok", "failed"} /\ api_tomorrow.events = <<>>

EmptyListsIdleFifteenMinutes ==
    \A c \in context :
        BothListsEmpty =>
            /\ c.state = "idle"
            /\ c.idle # {}
            /\ \A idle \in c.idle :
                  idle.message = "No games today" /\ idle.message # ""
            /\ next_refresh = c.last_updated + 15 * 60

\* the loop polled an upstream without games after the clock had moved
EmptyListsScheduled ==
    /\ BothListsEmpty
    /\ api_today.kind = "ok"
    /\ \E c \in context : c.state = "idle" /\ c.last_updated > 0
    /\ next_refresh > MaxClock

\* C12: next_refresh is the time of the cycle plus update_interval seconds
\* for Live, plus the retry_in of the context for Error, plus 15 minutes for
\* Idle and for Final.
CadenceFollowsState ==
    \A c \in context :
        /\ c.state = "live" => next_refresh = c.last_updated + 15
        /\ c.state = "error" =>
              \A e \in c.error : next_refresh = c.last_updated + e.retry_in
        /\ c.state \in {"idle", "final"} =>
              next_refresh = c.last_updated + 15 * 60

\* the third Error in a row, scheduled 180 seconds ahead
ThirdErrorScheduled ==
    \E c \in context :
        /\ c.state = "error"
        /\ error_count = 3
        /\ next_refresh = c.last_updated + 180

\* C13: for a Pregame context next_refresh is 30 seconds after the cycle
\* exactly when the time to the start is at most 60 minutes, and 5 minutes
\* after it whenever the time to the start is more than 60 minutes.
PregameCadenceByTimeToStart ==
    \A c \in context :
        c.state = "pregame" =>
            \A cd \in c.countdown :
                next_refresh = c.last_updated
                                 + (IF cd.time_until <= 60 * 60 THEN 30 ELSE 5 * 60)

ShutdownStopsLoop ==
    /\ [][~running => (pc' = "body" => pc = "body")]_vars
    /\ [][(~running /\ pc = "while") => pc' \in {"while", "finally"}]_vars
    /\ (~running ~> pc = "done")

\* the signal arrived inside a tick in which a refresh is due
SignalDuringDueTick ==
    /\ ~running
    /\ pc = "body"
    /\ context # {}
    /\ now >= next_refresh

\* C19: a tick changes the context only by a fetch, and fetches only when
\* now >= next_refresh or nothing is cached yet; any other tick keeps the
\* cached context, the context and next_refresh as they are; a fetch
\* schedules next_refresh in the same tick, strictly after now, and caches
\* the fetched context; so a fetch is at least the scheduled cadence after
\* the fetch before it.
FetchOnlyWhenDue ==
    [][/\ context' # context =>
            /\ pc = "body"
            /\ now >= next_refresh \/ _last_context = {}
            /\ _last_context' = context'
            /\ next_refresh' > now
            /\ \A c \in context :
                  now - c.last_updated >= next_refresh - c.last_updated
       /\ (pc = "body" /\ now < next_refresh /\ _last_context # {}) =>
            /\ context' = context
            /\ _last_context' = _last_context
            /\ next_refresh' = next_refresh
            /\ api_today' = api_today
            /\ error_count' = error_count]_vars

\* two minutes after an Idle context was fetched: the second tick reused it
CachedContextReused ==
    /\ pc = "while"
    /\ now = 120
    /\ next_refresh = 900
    /\ _last_context = context
    /\ \E c \in context : c.state = "idle" /\ c.last_updated = 0

\* C20: while the shutdown flag is not set polling goes on: after every
\* refresh next_refresh lies one of the cadences ahead (15 s, 30 s, 5 min,
\* a retry_in of 60 to 300 s, or 15 min), the clock reaches it, and once it
\* is reached another fetch happens, in every display state.
RefreshDue == running /\ context # {} /\ now >= next_refresh

RefreshPending ==
    running /\ context # {} /\ now < next_refresh /\ next_refresh <= MaxClock

PollingNeverStops ==
    /\ [](\A c \in context :
            next_refresh - c.last_updated
                \in {15, 30, 60, 120, 180, 240, 300, 900})
    /\ ((running /\ context = {}) ~> (~running \/ context # {}))
    /\ (RefreshPending ~> (~running \/ now >= next_refresh))
    /\ (RefreshDue ~> (~running \/ now < next_refresh))

\* a second Error in a row: the loop polled again after an Error
ErrorPolledAgain ==
    /\ running
    /\ error_count = 2
    /\ \E c \in context :
          /\ c.state = "error"
          /\ next_refresh = c.last_updated + 120

\* C16: when the games of a cycle hold a live game with a favorite team and
\* a pregame game with a favorite team that starts outside the pregame
\* window, the live game is selected ahead of it and the cycle returns Live.
FavoriteEvent(event) ==
    /\ event.comps = "ok"
    /\ event.home \in {"SEA", "NY"} \/ event.away \in {"SEA", "NY"}

LiveFavoriteBeatsFarPregame ==
    \A c \in context :
        LET events == api_today.events \o api_tomorrow.events
            live == {i \in DOMAIN events :
                        FavoriteEvent(events[i]) /\ events[i].state = {"in"}}
            far == {i \in DOMAIN events :
                       /\ FavoriteEvent(events[i])
                       /\ events[i].state = {"pre"}
                       /\ events[i].date.t - c.last_updated > 2 * 3600}
        IN  (live # {} /\ far # {}) =>
                /\ c.state = "live"
                /\ \A dg \in CycleOf(c).selected :
                      /\ dg.game.id \in {events[i].id : i \in live}
                      /\ ShowsGame(c, dg.game)

\* the example of the specification: NY pregame outside the window listed
\* before SEA live; SEA at MIN is shown as Live
LiveChosenOverFarPregame ==
    /\ Len(api_today.events) = 2
    /\ api_today.events[1].state = {"pre"}
    /\ api_today.events[1].home = "NY"
    /\ api_today.events[2].state = {"in"}
    /\ \E c \in context :
          /\ c.last_updated = 0
          /\ c.state = "live"
          /\ \E sb \in c.scoreboard : sb.home_team = "SEA"

\* C17 as stated: the score of a candidate is 100, minus 50 plus the
\* smallest favorites-list index of its teams when a team is a favorite,
\* minus 20 if live, minus 10 if pregame within the window, plus 10 if
\* pregame outside it, plus 30 if final; of two favorite games with the same
\* status adjustment the one whose favorite is listed earlier comes first.
FavoriteIndex(game) ==
    IF "SEA" \in {game.home_team.abbreviation, game.away_team.abbreviation}
    THEN 0 ELSE 1

FavoritePart(game) ==
    IF HasFavorite(game) THEN FavoriteIndex(game) - 50 ELSE 0

PregamePart(game) ==
    IF game.status.state # "pre" THEN 0
    ELSE IF game.date.t - now <= 2 * 3600 THEN 0 - 10 ELSE 10

AddedParts(game) ==
    (IF game.status.state = "in" THEN 0 - 20 ELSE 0)
    + PregamePart(game)
    + (IF game.status.completed \/ game.status.state = "post" THEN 30 ELSE 0)

FirstPart(game) ==
    IF game.status.state = "in" THEN 0 - 20
    ELSE IF game.status.state = "pre" THEN PregamePart(game)
    ELSE IF game.status.completed \/ game.status.state = "post" THEN 30
    ELSE 0

EarlierFavoriteFirst(list) ==
    \A i, j \in DOMAIN list :
        /\ HasFavorite(list[i].game) /\ HasFavorite(list[j].game)
        /\ FavoriteIndex(list[i].game) < FavoriteIndex(list[j].game)
        /\ FirstPart(list[i].game) = FirstPart(list[j].game)
        => i < j

ScoreIsSumOfAdjustments ==
    \A r \in prio_result :
        r.exc = "" =>
            /\ \A i \in DOMAIN r.display_games :
                  r.display_games[i].priority_score =
                      100 + FavoritePart(r.display_games[i].game)
                          + AddedParts(r.display_games[i].game)
            /\ EarlierFavoriteFirst(r.display_games)

\* C17, amended: the status adjustment is the first that applies of: minus
\* 20 if live; minus 10 or plus 10 if pregame within or outside the window;
\* plus 30 if final.
ScoreIsFirstAdjustment ==
    \A r \in prio_result :
        r.exc = "" =>
            /\ \A i \in DOMAIN r.display_games :
                  r.display_games[i].priority_score =
                      100 + FavoritePart(r.display_games[i].game)
                          + FirstPart(r.display_games[i].game)
            /\ EarlierFavoriteFirst(r.display_games)

\* two final games, the NY one given first: SEA (80) comes out ahead of NY (81)
EarlierFavoriteMovedAhead ==
    \E r \in prio_result :
        /\ r.exc = ""
        /\ Len(prio_games) = 2
        /\ prio_games[1].home_team.abbreviation = "NY"
        /\ Len(r.display_games) = 2
        /\ r.display_games[1].game.home_team.abbreviation = "SEA"
        /\ r.display_games[1].priority_score = 80
        /\ r.display_games[2].priority_score = 81

\* C18: every context a cycle returns has exactly one payload populated, the
\* one of its state: scoreboard for Live and Final, countdown for Pregame,
\* idle for Idle, error for Error.
OnePayloadMatchingState ==
    \A c \in context :
        /\ c.state \in {"idle", "pregame", "live", "final", "error"}
        /\ \A f \in {"scoreboard", "countdown", "idle", "error"} :
              (c[f] # {}) <=> (f = PayloadOf(c.state))
        /\ \A f \in {"scoreboard", "countdown", "idle", "error"} :
              Cardinality(c[f]) <= 1

\* a Final context fetched by the loop after an Error one
FinalAfterError ==
    /\ error_count = 0
    /\ \E c \in context :
          /\ c.state = "final"
          /\ c.scoreboard # {}
          /\ c.last_updated = 60

\* C21: the context a cycle returns is decided by the answers of that
\* cycle and the clock alone: whatever the manager went through before
\* (display state, current_game, game_history, error_count), a cycle that
\* does not fail returns the context of a manager without a past, and a
\* cycle that fails returns Error.
ContextIgnoresHistory ==
    \A c \in context :
        IF CycleOf(c).exc = ""
        THEN context = CycleOf(c).returned
        ELSE c.state = "error"

\* after a Live cycle and an Error cycle an Idle context is returned
IdleAfterLiveAndError ==
    /\ current_display_state = "live"
    /\ DOMAIN game_history # {}
    /\ error_count = 1
    /\ api_today = Events(<<>>)
    /\ \E c \in context : c.state = "idle"

\* C23: a record of game_history exists for every game id of the fetched
\* games from the first cycle that fetched it, a later cycle that fetches
\* the id again moves current_state to previous_state and stores the new
\* status, and no record is removed.
FetchedEvents ==
    {api_today.events[i] : i \in DOMAIN api_today.events}
        \cup {api_tomorrow.events[i] : i \in DOMAIN api_tomorrow.events}

FetchedIds == {e.id : e \in {f \in FetchedEvents : f.comps # "none"}}

HistoryFollowsFetchedGames ==
    /\ [](\A c \in context :
            c.state # "error" => FetchedIds \subseteq DOMAIN game_history)
    /\ [][DOMAIN game_history \subseteq DOMAIN game_history']_vars
    /\ [][(now' = now /\ \A c \in context' : c.state # "error") =>
            \A id \in FetchedIds' \cap DOMAIN game_history :
                /\ game_history'[id].previous_state
                      = game_history[id].current_state
                /\ \E e \in FetchedEvents' :
                      /\ e.id = id
                      /\ game_history'[id].current_state
                            = (IF e.state = {} THEN "unknown"
                               ELSE CHOOSE st \in e.state : TRUE)]_vars

\* C22: games with equal priority_score leave _prioritize_games in the
\* order in which they were given, so the first of the list is, among the
\* games with the lowest score, the one that arrived first.
PositionIn(list, game) == CHOOSE k \in DOMAIN list : list[k] = game

EqualScoresKeepInputOrder ==
    \A r \in prio_result :
        r.exc = "" =>
            \A i, j \in DOMAIN r.display_games :
                /\ i < j
                /\ r.display_games[i].priority_score
                      = r.display_games[j].priority_score
                => PositionIn(prio_games, r.display_games[i].game)
                      < PositionIn(prio_games, r.display_games[j].game)

\* two final Seattle games (favorites index 0, score 80 each) given after
\* a game that scores worse: both move ahead of it, in their own order
TiedFavoritesKeepOrder ==
    \E r \in prio_result :
        /\ r.exc = ""
        /\ Len(prio_games) = 3
        /\ Len(r.display_games) = 3
        /\ r.display_games[1].game = prio_games[2]
        /\ r.display_games[2].game = prio_games[3]
        /\ r.display_games[1].priority_score = 80
        /\ r.display_games[2].priority_score = 80
        /\ \A k \in {1, 2} :
              "SEA" \in {r.display_games[k].game.home_team.abbreviation,
                         r.display_games[k].game.away_team.abbreviation}

\* C25 as stated: the tier of a candidate is High exactly when one of its
\* teams is a favorite; a candidate without a favorite is Medium when live
\* or pregame within the window, and Low when pregame outside the window or
\* final.
WithinWindowNow(game) == game.date.t - now <= 2 * 3600

TierFollowsRules ==
    \A r \in prio_result :
        r.exc = "" =>
            \A i \in DOMAIN r.display_games :
                LET dg == r.display_games[i]
                    st == dg.game.status
                IN  /\ (dg.priority = "HIGH") <=> HasFavorite(dg.game)
                    /\ (~HasFavorite(dg.game) /\ st.state = "in")
                          => dg.priority = "MEDIUM"
                    /\ (~HasFavorite(dg.game) /\ st.state = "pre"
                            /\ WithinWindowNow(dg.game))
                          => dg.priority = "MEDIUM"
                    /\ (~HasFavorite(dg.game) /\ st.state = "pre"
                            /\ ~WithinWindowNow(dg.game))
                          => dg.priority = "LOW"
                    /\ (~HasFavorite(dg.game)
                            /\ (st.completed \/ st.state = "post"))
                          => dg.priority = "LOW"

\* C25, amended: as above, with Low for a final game only when it is
\* neither live nor pregame.
TierFollowsFirstRule ==
    \A r \in prio_result :
        r.exc = "" =>
            \A i \in DOMAIN r.display_games :
                LET dg == r.display_games[i]
                    st == dg.game.status
                IN  /\ (dg.priority = "HIGH") <=> HasFavorite(dg.game)
                    /\ (~HasFavorite(dg.game) /\ st.state = "in")
                          => dg.priority = "MEDIUM"
                    /\ (~HasFavorite(dg.game) /\ st.state = "pre"
                            /\ WithinWindowNow(dg.game))
                          => dg.priority = "MEDIUM"
                    /\ (~HasFavorite(dg.game) /\ st.state = "pre"
                            /\ ~WithinWindowNow(dg.game))
                          => dg.priority = "LOW"
                    /\ (~HasFavorite(dg.game)
                            /\ st.state \notin {"in", "pre"}
                            /\ (st.completed \/ st.state = "post"))
                          => dg.priority = "LOW"

\* a favorite final game (High), a live game (Medium) and a final game (Low)
\* without favorites in one call
ThreeTiersInOneCall ==
    \E r \in prio_result :
        /\ r.exc = ""
        /\ Len(r.display_games) = 3
        /\ r.display_games[1].priority = "MEDIUM"
        /\ r.display_games[1].game.status.state = "in"
        /\ r.display_games[2].priority = "HIGH"
        /\ r.display_games[2].game.status.state = "post"
        /\ r.display_games[3].priority = "LOW"

\* C26: whenever a fetched game (today's or tomorrow's) involves a favorite
\* team, only favorite games are ranked and the selected game involves a
\* favorite team; games without a favorite are ranked only when no favorite
\* game was fetched.
FetchedGames(c) == FetchGames(api_today, api_tomorrow, c.last_updated).all_games

FavoriteFetched(c) ==
    \E i \in DOMAIN FetchedGames(c) : HasFavorite(FetchedGames(c)[i])

OnlyFavoritesRankedWhenFetched ==
    \A c \in context :
        \A cycle \in {CycleOf(c)} :
            (cycle.exc = "" /\ FavoriteFetched(c)) =>
                /\ cycle.selected # {}
                /\ \A dg \in cycle.selected : HasFavorite(dg.game)
                /\ \A sb \in c.scoreboard :
                      {sb.home_team, sb.away_team} \cap {"SEA", "NY"} # {}
                /\ \A r \in {_prioritize_games(
                                 GamesToConsider(FetchedGames(c)),
                                 c.last_updated)} :
                      \A i \in DOMAIN r.display_games :
                          HasFavorite(r.display_games[i].game)

\* a live game without a favorite listed before a final favorite game with
\* the same score: the final favorite game is shown
FinalFavoriteShownBeforeLiveOther ==
    \E c \in context :
        /\ api_today = Events(<<LiveCompleted, FinalFavorite>>)
        /\ c.state = "final"
        /\ \A sb \in c.scoreboard : sb.home_team = "SEA"

\* C27: with a favorites list of at most 10 entries, aware start times and
\* a cycle that does not fail: if a game of the considered set (the favorite
\* games if there are any, otherwise all games) is live, the selected game
\* is live and the state is Live.
Considered(c) ==
    {FetchedGames(c)[i] : i \in {k \in DOMAIN FetchedGames(c) :
        FavoriteFetched(c) => HasFavorite(FetchedGames(c)[k])}}

LiveConsideredIsSelected ==
    \A c \in context :
        \A cycle \in {CycleOf(c)} :
            (/\ cycle.exc = ""
             /\ Len(favorite_teams) <= 10
             /\ \A g \in Considered(c) : g.date.aware
             /\ \E g \in Considered(c) : g.status.state = "in") =>
                /\ cycle.selected # {}
                /\ \A dg \in cycle.selected : dg.game.status.state = "in"
                /\ c.state = "live"

\* the live game of the second favorite listed after a pregame game of the
\* first favorite that is within the window
LiveSecondFavoriteOverPregameFirst ==
    \E c \in context :
        /\ api_today = Events(<<PregameSeattleSoon, LiveNewYork>>)
        /\ c.state = "live"
        /\ \A sb \in c.scoreboard : sb.home_team = "NY"

\* C28: a final game and a pregame game outside the window with the same
\* favorites index (or both without a favorite) in the considered set: the
\* final game is not selected, and when the set holds just these two the
\* pregame game is selected, the cycle returns Idle "Next game in Nh" without
\* a scoreboard and the next cycle is due 15 minutes later; state Final is
\* returned only when no live, pregame or unknown-status game of the set has
\* a lower score.
FinalNotLive(game) ==
    /\ game.status.state \notin {"in", "pre"}
    /\ game.status.completed \/ game.status.state = "post"

FarPregame(game, clock) ==
    game.status.state = "pre" /\ game.date.t - clock > 2 * 3600

NoGamesToday(c) == \E i \in c.idle : i.message = "No games today"

DisplayStateWrittenOnGameStates ==
    [][now' = now =>
          \A c2 \in context' :
              /\ c2.state \in {"live", "pregame", "final"}
                    => current_display_state' = c2.state
              /\ c2.state \in {"idle", "error"}
                    => current_display_state' = current_display_state
              /\ (c2.state = "error" \/ NoGamesToday(c2))
                    => /\ current_game' = current_game
                       /\ last_update' = last_update
              /\ (c2.state = "idle" /\ ~NoGamesToday(c2))
                    => /\ current_game' # {}
                       /\ last_update' = now]_vars

\* the summary still says live with the game of an earlier cycle while the
\* context just returned is Idle
SummaryDiffersFromContext ==
    \E c \in context :
        /\ c.state = "idle"
        /\ get_status_summary.current_state = "live"
        /\ get_status_summary.current_game = {"LAS@NY"}
        /\ NoGamesToday(c)

\* C30: a selected game that is neither live, pregame nor final has no
\* status adjustment in its score, and its cycle returns Idle "No active
\* games", not Error, sets error_count to 0 and makes the next cycle due 15
\* minutes later.
UnknownStatus(game) ==
    game.status.state \notin {"pre", "in", "post"} /\ ~game.status.completed

UnknownStatusIsIdle ==
    [][now' = now =>
          \A c2 \in context' :
              \A cycle \in {RunCycle(api_today', api_tomorrow', now)} :
                  \A dg \in cycle.selected :
                      UnknownStatus(dg.game) =>
                          /\ dg.priority_score = 100 + FavoritePart(dg.game)
                          /\ c2.state = "idle"
                          /\ c2.idle # {}
                          /\ \A i \in c2.idle : i.message = "No active games"
                          /\ c2.error = {}
                          /\ error_count' = 0
                          /\ next_refresh' = now + 15 * 60]_vars

\* New York's game without a status, selected ahead of a game without
\* favorites
UnknownStatusShown ==
    \E c \in context :
        /\ api_today = Events(<<LiveOther, UnknownNewYork>>)
        /\ c.state = "idle"
        /\ \A i \in c.idle : i.message = "No active games"
        /\ \A cg \in current_game : cg.id = "409"
        /\ current_game # {}
        /\ error_count = 0

\* C24 as stated: a tick renders exactly when it fetched or its content hash
\* differs from the one of the tick before; with an Idle context no tick
\* between two fetches renders, with any other context the tick of every
\* thirtieth frame renders; a render that returned clears the redraw flag
\* and one that raised leaves it set.
TickDone == pc = "body" /\ pc' # "body"

HashChanged == last_content_hash' # last_content_hash

RendersIffFetchedOrChanged ==
    [][TickDone =>
          /\ rendered' <=> (refreshed' \/ HashChanged)
          /\ \A ctx \in _last_context' :
                /\ (ctx.state = "idle" /\ ~refreshed') => ~rendered'
                /\ (ctx.state # "idle" /\ frame_count % 30 = 0) => rendered'
          /\ rendered' => (needs_redraw' <=> pc' = "except")]_vars

\* C24, amended: a tick renders exactly when it fetched, its content hash
\* differs from the one of the tick before, or the redraw flag was still set
\* when it began; with an Idle context no tick between two fetches that
\* began with the flag cleared renders; the rest as stated.
RendersIffFetchedChangedOrPending ==
    [][TickDone =>
          /\ rendered' <=> (refreshed' \/ HashChanged \/ needs_redraw)
          /\ \A ctx \in _last_context' :
                /\ (ctx.state = "idle" /\ ~refreshed' /\ ~needs_redraw)
                      => ~rendered'
                /\ (ctx.state # "idle" /\ frame_count % 30 = 0) => rendered'
          /\ rendered' => (needs_redraw' <=> pc' = "except")]_vars

\* an Idle context drawn again by a tick that did not fetch: the render of
\* the tick before had raised
IdleRenderRetried ==
    /\ \E ctx \in _last_context : ctx.state = "idle"
    /\ frame_count > 0
    /\ rendered
    /\ ~refreshed
    /\ ~needs_redraw
    /\ pc = "while"

====
